---- MODULE Spec2Model ----
(***************************************************************************)
(* BadassInvoices (invoicenow): the payment page (app/pages/pay/[id].tsx,  *)
(* printed in src/README.md from line 260), its handlePay flow, and the     *)
(* lottery backend it calls (/v1/spin/entry, /v1/spin/settle/:entryId,      *)
(* /v1/hooks/verify-payment).  The backend routes are not part of src/:     *)
(* they are modelled from spec.md and marked so in the definitions below.   *)
(* ApiSpec is the invoice API (routes/invoices.ts and db.ts, printed in     *)
(* src/unnamed/part_000) over an invoices table that starts empty, and      *)
(* VerifySpec applies verifyPayment (services/solana-pay.ts) to the          *)
(* transactions a signature can name.  FairSpec is the payment page alone,  *)
(* with every promise handlePay awaits settled at some time.                *)
(*                                                                          *)
(* A nullable value of the program (T | null) is a sequence of length at    *)
(* most one: <<>> is null and <<v>> is the value v.                         *)
(***************************************************************************)
EXTENDS Integers, Sequences, FiniteSets, TLC

\* ------------------------------------------------------------------ bounds
\* handlePay runs started in one behaviour, over all payment pages
MaxRuns == 2
\* settle requests sent to the backend by callers other than handlePay
MaxDirectSettles == 1
\* double-or-nothing payments of the same invoices made from other payment pages
MaxOtherPayments == 1
\* successful reminders of one invoice
MaxReminders == 2

\* ------------------------------------------------------- program constants
\* for (let i = 0; i < 30; i++): confirmation polls of one handlePay run
MaxPolls == 30
\* createLotteryEntry(..., premiumPaid, 50, signature)
RiskSlider == 50
\* "20% minimum reserve requirement"
MinReservePercent == 20
\* "10% max single win cap"
MaxWinPercent == 10
\* "5% house edge on premiums"
HouseEdgePercent == 5
\* const feeBuffer = ... ? 10_000_000 : 0  (0.01 SOL for tx fees + rent)
FeeBuffer == 10000000

\* ------------------------------------------------------------ value spaces
SOL_MINT == "So11111111111111111111111111111111111111112"
USDC_MINT == "EPjFWdd5AufqSSqeM2qN1xzybapC8G4wEGGkZwyTDt1v"
Clients == {1}
InvoiceIds == {1}
Amounts == {5000000, 10000000}
Mints == {SOL_MINT, USDC_MINT}
PoolSeeds == {100000000}
Balances == {10000000, 30000000}
Rolls == 0 .. 99
IssuedIds == {1}              \* invoice API: ids nanoid can draw
RequestIds == {1, 2}          \* invoice API: ids a request can name
WalletSessions == {1}         \* the wallets a page gets connected to, one after the other

Null == <<>>
Some(v) == <<v>>
IsNull(x) == x = <<>>
Val(x) == x[1]

VARIABLES
  invoices,           \* backend: invoices table, id -> row
  entries,            \* backend: lottery entries, entry id = index
  poolBalance,        \* backend: balance of the lottery pool
  totalPaidOut,       \* backend: sum of all payouts made from the pool
  data,               \* page: PaymentData | null
  poolWalletAddress,  \* page: string | null
  doubleOrNothing,    \* page: boolean
  walletBalance,      \* page: number | null
  checkingBalance,    \* page: boolean, a checkWalletBalance call is under way
  connected,          \* page: boolean, a wallet is connected (publicKey is set)
  sessions,           \* page: the wallet sessions the page has had
  paying,             \* page: boolean
  pc,                 \* page: the await handlePay is suspended at, or "idle"
  run,                \* page: the locals of the current (or last) handlePay run
  wheel,              \* page: showSpinWheel, spinning, spinResult, wheelRotation
  runs,               \* handlePay runs started so far
  directSettles,      \* direct settle requests sent so far
  other,              \* another client's page, reduced to the requests it sends
  http,               \* invoice API: the last request handled and its response
  outbox              \* invoice API: reminder emails sent, per invoice id

backend == <<invoices, entries, poolBalance, totalPaidOut>>
pageState == <<data, poolWalletAddress, doubleOrNothing, walletBalance, checkingBalance, connected, sessions>>
runState == <<paying, pc, run, wheel, runs>>
vars == <<backend, pageState, runState, directSettles, other, http, outbox>>

\* ------------------------------------------------------------- arithmetic
\* floor(x * p / 100), computed without leaving 32 bits
PercentOf(p, x) == (x \div 100) * p + ((x % 100) * p) \div 100

RECURSIVE SumAmounts(_)
SumAmounts(ins) ==
  IF ins = <<>> THEN 0
  ELSE (IF Head(ins).kind = "transfer" THEN Head(ins).lamports ELSE 0) + SumAmounts(Tail(ins))

\* the amounts a transaction transfers to one recipient, in instruction order
RECURSIVE TransfersTo(_, _)
TransfersTo(ins, to) ==
  IF ins = <<>> THEN <<>>
  ELSE (IF Head(ins).kind = "transfer" /\ Head(ins).toPubkey = to
        THEN <<Head(ins).lamports>> ELSE <<>>) \o TransfersTo(Tail(ins), to)

\* ------------------------------------------------------- the payment page
CREATOR == "creatorWallet"
POOL == "poolWallet"

\* locals of handlePay; EmptyRun when no run is under way
EmptyRun ==
  [doubleOrNothing |-> FALSE, paymentAmount |-> 0, invoiceAmount |-> 0,
   premiumAmount |-> 0, isLottery |-> FALSE, transaction |-> <<>>,
   signature |-> 0, confirmed |-> FALSE, txErr |-> FALSE, verified |-> FALSE, i |-> 0, premiumPaid |-> 0, entryId |-> 0,
   won |-> FALSE, totalRotation |-> 0]

NoWheel == [showSpinWheel |-> FALSE, spinning |-> FALSE, spinResult |-> "null", wheelRotation |-> 0]

\* mutant: the doubling is forgotten
getPaymentAmountNoDouble(d, dn) ==
  IF IsNull(d) THEN 0 ELSE Val(d).amount

\* Payment amount: normal or 2x for double or nothing
getPaymentAmount(d, dn) ==
  IF IsNull(d) THEN 0
  ELSE IF dn THEN Val(d).amount * 2 ELSE Val(d).amount

\* mutant: the fee buffer is forgotten
hasEnoughBalanceNoFee(c) ==
  IF IsNull(walletBalance[c]) \/ IsNull(data[c]) THEN FALSE
  ELSE Val(walletBalance[c]) >= getPaymentAmount(data[c], doubleOrNothing[c])

\* Check if wallet has enough balance (fee buffer for SOL payments)
hasEnoughBalance(c) ==
  IF IsNull(walletBalance[c]) \/ IsNull(data[c]) THEN FALSE
  ELSE LET feeBuffer == IF Val(data[c]).tokenMint = SOL_MINT THEN FeeBuffer ELSE 0
       IN  Val(walletBalance[c]) >= getPaymentAmount(data[c], doubleOrNothing[c]) + feeBuffer

canAffordDouble(c) ==
  IF IsNull(data[c]) \/ IsNull(walletBalance[c]) THEN FALSE
  ELSE Val(walletBalance[c]) >= Val(data[c]).amount * 2

isPaid(c) == Val(data[c]).status = "paid"

\* const premiumAmount = paymentAmount - invoiceAmount
PremiumAmount(paymentAmount, invoiceAmount) == paymentAmount - invoiceAmount

\* const isLottery = doubleOrNothing && premiumAmount > 0 && poolWalletAddress
IsLottery(dn, premiumAmount, poolAddr) == dn /\ premiumAmount > 0 /\ ~IsNull(poolAddr)

Transfer(from, to, amount) ==
  [kind |-> "transfer", fromPubkey |-> from, toPubkey |-> to, lamports |-> amount]
CreateAta(from, owner) ==
  [kind |-> "createAta", fromPubkey |-> from, toPubkey |-> owner, lamports |-> 0]

\* mutant: in lottery mode the whole payment goes to the pool wallet
BuildTransactionPoolOnly(payer, tokenMint, invoiceAmount, premiumAmount, isLottery, recipientAta, poolAta) ==
  IF isLottery
  THEN <<Transfer(payer, POOL, invoiceAmount + premiumAmount)>>
  ELSE <<Transfer(payer, CREATOR, invoiceAmount)>>

\* the instructions handlePay adds to the transaction; recipientAta and poolAta
\* tell whether getAccount finds the associated token account (SPL tokens only)
BuildTransaction(payer, tokenMint, invoiceAmount, premiumAmount, isLottery, recipientAta, poolAta) ==
  IF tokenMint = SOL_MINT
  THEN <<Transfer(payer, CREATOR, invoiceAmount)>>
       \o (IF isLottery THEN <<Transfer(payer, POOL, premiumAmount)>> ELSE <<>>)
  ELSE (IF recipientAta THEN <<>> ELSE <<CreateAta(payer, CREATOR)>>)
       \o <<Transfer(payer, CREATOR, invoiceAmount)>>
       \o (IF isLottery
           THEN (IF poolAta THEN <<>> ELSE <<CreateAta(payer, POOL)>>)
                \o <<Transfer(payer, POOL, premiumAmount)>>
           ELSE <<>>)

\* another client's handlePay in double-or-nothing mode, after its payment was
\* confirmed: the await it is suspended at, the invoice it pays, its
\* transaction signature and lottery entry, and the payments it has made
NoOther == [pc |-> "idle", id |-> 0, signature |-> 0, entryId |-> 0, payments |-> 0]

\* the invoice API before any request: no request, no response
NoRequest == [req |-> [op |-> "none"], res |-> [code |-> 0]]

\* ------------------------------------------------------------------- Init
InvoiceRow(amount, mint) ==
  [creator_wallet |-> CREATOR, amount |-> amount, token_mint |-> mint,
   status |-> "pending", tx_signature |-> 0]

Init ==
  /\ invoices \in [InvoiceIds -> {InvoiceRow(a, m) : a \in Amounts, m \in Mints}]
  /\ entries = <<>>
  /\ poolBalance \in PoolSeeds
  /\ totalPaidOut = 0
  /\ data = [c \in Clients |-> Null]
  /\ poolWalletAddress = [c \in Clients |-> Null]
  /\ doubleOrNothing = [c \in Clients |-> FALSE]
  /\ walletBalance = [c \in Clients |-> Null]
  /\ checkingBalance = [c \in Clients |-> FALSE]
  /\ connected = [c \in Clients |-> FALSE]
  /\ sessions = [c \in Clients |-> {}]
  /\ paying = [c \in Clients |-> FALSE]
  /\ pc = [c \in Clients |-> "idle"]
  /\ run = [c \in Clients |-> EmptyRun]
  /\ wheel = [c \in Clients |-> NoWheel]
  /\ runs = 0
  /\ directSettles = 0
  /\ other = NoOther
  /\ http = NoRequest
  /\ outbox = [id \in RequestIds |-> 0]

\* ------------------------------------------------- page effects and buttons
\* useEffect [connected, publicKey, data]: with a wallet connected and the
\* data loaded, checkWalletBalance starts
BalanceEffect(c, isConnected, d) ==
  [checkingBalance EXCEPT ![c] = IF isConnected /\ ~IsNull(d) THEN TRUE ELSE @]

\* the wallet adapter connects a wallet: connected and publicKey are set
ConnectWallet(c) ==
  /\ ~connected[c]
  /\ \E s \in WalletSessions \ sessions[c] :
       sessions' = [sessions EXCEPT ![c] = @ \cup {s}]
  /\ connected' = [connected EXCEPT ![c] = TRUE]
  /\ checkingBalance' = BalanceEffect(c, TRUE, data[c])
  /\ UNCHANGED <<backend, data, poolWalletAddress, doubleOrNothing, walletBalance, runState, directSettles, other, http, outbox>>

\* the wallet is disconnected, between two payments: walletBalance keeps the
\* last balance checked
DisconnectWallet(c) ==
  /\ connected[c]
  /\ pc[c] = "idle"
  /\ connected' = [connected EXCEPT ![c] = FALSE]
  /\ UNCHANGED <<backend, sessions, data, poolWalletAddress, doubleOrNothing, walletBalance, checkingBalance, runState, directSettles, other, http, outbox>>

\* loadPaymentData: GET /pay/:id answers with the invoice, or fails
LoadPaymentData(c) ==
  /\ IsNull(data[c])
  /\ \E id \in InvoiceIds :
       /\ data' = [data EXCEPT ![c] =
            Some([id |-> id, creatorWallet |-> invoices[id].creator_wallet,
                  amount |-> invoices[id].amount, tokenMint |-> invoices[id].token_mint,
                  status |-> invoices[id].status])]
       /\ checkingBalance' = BalanceEffect(c, connected[c], data'[c])
  /\ UNCHANGED <<backend, connected, sessions, poolWalletAddress, doubleOrNothing, walletBalance, runState, directSettles, other, http, outbox>>

\* getPoolWallet().then(setPoolWalletAddress); a failure only logs a warning
GetPoolWallet(c) ==
  /\ IsNull(poolWalletAddress[c])
  /\ poolWalletAddress' = [poolWalletAddress EXCEPT ![c] = Some(POOL)]
  /\ UNCHANGED <<backend, connected, sessions, data, doubleOrNothing, walletBalance, checkingBalance, runState, directSettles, other, http, outbox>>

\* checkWalletBalance completes: a balance (0 when the token account is missing),
\* or null when the RPC call fails
CheckWalletBalance(c) ==
  /\ checkingBalance[c]
  /\ \E b \in {Some(x) : x \in Balances} \cup {Null} :
       walletBalance' = [walletBalance EXCEPT ![c] = b]
  /\ checkingBalance' = [checkingBalance EXCEPT ![c] = FALSE]
  /\ UNCHANGED <<backend, connected, sessions, data, poolWalletAddress, doubleOrNothing, runState, directSettles, other, http, outbox>>

\* the two option cards, rendered when !isPaid && connected
SetDoubleOrNothing(c) ==
  /\ ~IsNull(data[c])
  /\ ~isPaid(c)
  /\ connected[c]
  /\ \E b \in BOOLEAN :
       /\ b # doubleOrNothing[c]
       /\ b => canAffordDouble(c)
       /\ doubleOrNothing' = [doubleOrNothing EXCEPT ![c] = b]
  /\ UNCHANGED <<backend, connected, sessions, data, poolWalletAddress, walletBalance, checkingBalance, runState, directSettles, other, http, outbox>>

\* ------------------------------------------- backend: payment verification
\* verifyPayment: true for a transaction that is found and has no error
verifyPayment(txFound, txErr) ==
  IF ~txFound THEN FALSE
  ELSE IF txErr THEN FALSE
  ELSE TRUE

\* POST /v1/hooks/verify-payment: marks the invoice as paid in the DB
MarkPaid(id, signature) ==
  [invoices EXCEPT ![id].status = "paid", ![id].tx_signature = signature]

\* ------------------------------------------------- backend: lottery entries
\* mutant: every create request stores an entry
EntryAllowedAlways(invoiceId) == TRUE

\* an invoice has at most one lottery entry
EntryAllowed(invoiceId) ==
  \A k \in DOMAIN entries : entries[k].invoice_id # invoiceId

\* settles, paidOut and firstOutcome are history: the settle requests answered
\* with an outcome, the amount paid out for the entry, the first outcome recorded
NewEntry(req) ==
  [invoice_id |-> req.invoiceId, client_wallet |-> req.clientWallet,
   premium_paid |-> req.premiumPaid, risk |-> req.riskSlider,
   tx_signature |-> req.txSignature, status |-> "pending",
   settles |-> 0, paidOut |-> 0, firstOutcome |-> "none"]

\* house edge (5%) is retained from premium; the rest is held by the pool
PoolShare(premiumPaid) == premiumPaid - PercentOf(HouseEdgePercent, premiumPaid)

\* ------------------------------------------------- backend: settlement
\* a single pseudo-random outcome with probability = risk%: a roll of 0..99
\* wins when it is below the risk
Won(roll, risk) == roll < risk

\* the outcomes the draw of an entry can have
Draws(risk) == {Won(roll, risk) : roll \in Rolls}

\* the refund of a winning entry: the whole payment, amount x (1 + risk/50),
\* where premium = amount x risk/50
Payout(e) == (e.premium_paid * (50 + e.risk)) \div e.risk

\* mutant: no cap on a single payout
WithinWinCapNone(payout, balance) == TRUE

\* cap any single payout at 10% of pool balance
WithinWinCap(payout, balance) == payout <= PercentOf(MaxWinPercent, balance)

\* pool must hold at least the minimum reserve (20%)
KeepsReserve(payout, balance) == balance - payout >= PercentOf(MinReservePercent, balance)

PayoutAllowed(payout, balance) == WithinWinCap(payout, balance) /\ KeepsReserve(payout, balance)

\* mutant: every settle request draws again
AlreadySettledNever(k) == FALSE

\* an entry is settled at most once
AlreadySettled(k) == entries[k].status # "pending"

\* mutant: a violated pool constraint does not stop the payout (fail open)
SettleOutcomeFailOpen(k, won) ==
  IF AlreadySettled(k) THEN entries[k].status
  ELSE IF ~won THEN "lost"
  ELSE "won"

\* the answer of POST /v1/spin/settle/:entryId: "won", "lost", or "error" when a
\* pool constraint is violated (fail closed)
SettleOutcome(k, won) ==
  IF AlreadySettled(k) THEN entries[k].status
  ELSE IF ~won THEN "lost"
  ELSE IF PayoutAllowed(Payout(entries[k]), poolBalance) THEN "won"
  ELSE "error"

\* the amount POST /v1/spin/settle/:entryId pays out of the pool
SettlePayout(k, won) ==
  IF ~AlreadySettled(k) /\ SettleOutcome(k, won) = "won" THEN Payout(entries[k]) ELSE 0

\* POST /v1/spin/settle/:entryId, as one database transaction
Settle(k, won) ==
  LET out == SettleOutcome(k, won)
      pay == SettlePayout(k, won)
  IN  /\ entries' =
           IF out = "error" THEN entries
           ELSE [entries EXCEPT ![k].status = out,
                                ![k].settles = @ + 1,
                                ![k].paidOut = @ + pay,
                                ![k].firstOutcome = IF @ = "none" THEN out ELSE @]
      /\ poolBalance' = poolBalance - pay
      /\ totalPaidOut' = totalPaidOut + pay

\* a settle request from any other caller of the public endpoint
DirectSettle ==
  /\ directSettles < MaxDirectSettles
  /\ \E k \in DOMAIN entries : \E won \in Draws(entries[k].risk) : Settle(k, won)
  /\ directSettles' = directSettles + 1
  /\ UNCHANGED <<invoices, pageState, runState, other, http, outbox>>

\* ---------------------------------------------------------------- handlePay
\* mutant: paying is left set when the run ends
FinallyKeepsPaying(c) ==
  /\ paying' = paying
  /\ pc' = [pc EXCEPT ![c] = "idle"]
  /\ run' = [run EXCEPT ![c] = EmptyRun]

\* finally { setPaying(false) }
Finally(c) ==
  /\ paying' = [paying EXCEPT ![c] = FALSE]
  /\ pc' = [pc EXCEPT ![c] = "idle"]
  /\ run' = [run EXCEPT ![c] = EmptyRun]

\* catch (error) { toast.error(error.message || "Payment failed") } finally {...}
Catch(c, message) == Finally(c)

\* setData({ ...data, status: "paid" }), which starts checkWalletBalance again
SetDataPaid(c) ==
  /\ data' = [data EXCEPT ![c] = Some([Val(data[c]) EXCEPT !.status = "paid"])]
  /\ checkingBalance' = BalanceEffect(c, connected[c], data'[c])

\* mutant: the lottery branch is taken in every mode
LotteryBranchAlways(dn) == TRUE

\* if (doubleOrNothing) {...} else {...}, after the confirmation
LotteryBranch(dn) == dn

\* mutant: the whole payment is reported as premium
PremiumPaidWhole(paymentAmount, amount) == paymentAmount

\* const premiumPaid = paymentAmount - data.amount
PremiumPaid(paymentAmount, amount) == paymentAmount - amount

\* mutant: a risk of 100 is passed
EntryRequestRisk100(invoiceId, clientWallet, premiumPaid, txSignature) ==
  [invoiceId |-> invoiceId, clientWallet |-> clientWallet, premiumPaid |-> premiumPaid,
   riskSlider |-> 2 * RiskSlider, txSignature |-> txSignature]

\* the arguments of createLotteryEntry: always riskSlider=50 for double or nothing
EntryRequest(invoiceId, clientWallet, premiumPaid, txSignature) ==
  [invoiceId |-> invoiceId, clientWallet |-> clientWallet, premiumPaid |-> premiumPaid,
   riskSlider |-> RiskSlider, txSignature |-> txSignature]

\* mutant: the button stays enabled during a payment
PayButtonEnabledWhilePaying(c) ==
  ~isPaid(c) /\ connected[c] /\ hasEnoughBalance(c)

\* the Pay button: rendered when !isPaid and connected, with
\* disabled={paying || !hasEnoughBalance()}
PayButtonEnabled(c) ==
  ~isPaid(c) /\ connected[c] /\ ~(paying[c] \/ ~hasEnoughBalance(c))

\* the guards of handlePay: if (!publicKey || !signTransaction || !data) return;
\* if (!hasEnoughBalance()) return
HandlePayProceeds(c) ==
  ~(~connected[c] \/ IsNull(data[c])) /\ hasEnoughBalance(c)

\* the Pay button (rendered when !isPaid, disabled when paying or
\* !hasEnoughBalance) calls handlePay, which runs up to its first await with
\* the transaction built
HandlePay(c) ==
  /\ runs < MaxRuns
  /\ ~IsNull(data[c])
  /\ PayButtonEnabled(c)
  /\ HandlePayProceeds(c)
  /\ LET d == Val(data[c])
         paymentAmount == getPaymentAmount(data[c], doubleOrNothing[c])
         invoiceAmount == d.amount
         premiumAmount == PremiumAmount(paymentAmount, invoiceAmount)
         isLottery == IsLottery(doubleOrNothing[c], premiumAmount, poolWalletAddress[c])
     IN  \E recipientAta \in BOOLEAN, poolAta \in BOOLEAN :
           run' = [run EXCEPT ![c] =
             [EmptyRun EXCEPT
                !.doubleOrNothing = doubleOrNothing[c],
                !.paymentAmount = paymentAmount,
                !.invoiceAmount = invoiceAmount,
                !.premiumAmount = premiumAmount,
                !.isLottery = isLottery,
                !.transaction = BuildTransaction(c, d.tokenMint, invoiceAmount,
                                   premiumAmount, isLottery, recipientAta, poolAta)]]
  /\ paying' = [paying EXCEPT ![c] = TRUE]
  /\ pc' = [pc EXCEPT ![c] = "sign"]
  /\ runs' = runs + 1
  /\ UNCHANGED <<backend, pageState, wheel, directSettles, other, http, outbox>>

\* getLatestBlockhash, signTransaction, sendRawTransaction: the transaction is
\* sent, or one of the three throws
SignAndSend(c) ==
  /\ pc[c] = "sign"
  /\ \/ /\ run' = [run EXCEPT ![c].signature = runs, ![c].i = 0]
        /\ pc' = [pc EXCEPT ![c] = "poll"]
        /\ UNCHANGED paying
     \/ Catch(c, "Payment failed")
  /\ UNCHANGED <<backend, pageState, wheel, runs, directSettles, other, http, outbox>>

\* one pass of the polling loop: getSignatureStatuses answers confirmed or
\* finalized (the transaction itself may have failed), or something else
PollConfirmed(c) ==
  /\ pc[c] = "poll"
  /\ run[c].i < MaxPolls
  /\ \E err \in BOOLEAN :
       run' = [run EXCEPT ![c].confirmed = TRUE, ![c].txErr = err, ![c].i = 0]
  /\ pc' = [pc EXCEPT ![c] = IF LotteryBranch(run[c].doubleOrNothing) THEN "verify" ELSE "stdverify"]
  /\ UNCHANGED <<backend, pageState, paying, wheel, runs, directSettles, other, http, outbox>>

\* mutant: the loop's result is not looked at
AfterLoopNoThrow(confirmed, dn) ==
  IF LotteryBranch(dn) THEN "verify" ELSE "stdverify"

\* after the loop: if (!confirmed) throw new Error("Transaction confirmation
\* timeout"); otherwise the branch on doubleOrNothing
AfterLoop(confirmed, dn) ==
  IF ~confirmed THEN "throw"
  ELSE IF LotteryBranch(dn) THEN "verify" ELSE "stdverify"

\* a poll that is answered with another status, or with none: the next
\* iteration, or, after the last one, the end of the loop with confirmed = false
PollPending(c) ==
  /\ pc[c] = "poll"
  /\ run[c].i < MaxPolls
  /\ IF run[c].i + 1 < MaxPolls
     THEN /\ run' = [run EXCEPT ![c].i = @ + 1]
          /\ UNCHANGED <<paying, pc>>
     ELSE IF AfterLoop(run[c].confirmed, run[c].doubleOrNothing) = "throw"
     THEN Catch(c, "Transaction confirmation timeout")
     ELSE /\ run' = [run EXCEPT ![c].i = 0]
          /\ pc' = [pc EXCEPT ![c] = AfterLoop(run[c].confirmed, run[c].doubleOrNothing)]
          /\ UNCHANGED paying
  /\ UNCHANGED <<backend, pageState, wheel, runs, directSettles, other, http, outbox>>

\* double or nothing: POST /v1/hooks/verify-payment; !verifyRes.ok throws
VerifyLottery(c) ==
  /\ pc[c] = "verify"
  /\ \E txFound \in BOOLEAN :
       IF verifyPayment(txFound, run[c].txErr)
       THEN /\ invoices' = MarkPaid(Val(data[c]).id, run[c].signature)
            /\ run' = [run EXCEPT ![c].verified = TRUE,
                                  ![c].premiumPaid =
                         PremiumPaid(run[c].paymentAmount, Val(data[c]).amount)]
            /\ pc' = [pc EXCEPT ![c] = "entry"]
            /\ UNCHANGED paying
       ELSE /\ Catch(c, "Payment verification failed")
            /\ UNCHANGED invoices
  /\ UNCHANGED <<entries, poolBalance, totalPaidOut, pageState, wheel, runs, directSettles, other, http, outbox>>

\* createLotteryEntry(data.id, publicKey, premiumPaid, 50, signature): the
\* backend stores the entry, or refuses it, or the request does not reach it
CreateLotteryEntry(c) ==
  /\ pc[c] = "entry"
  /\ \E reached \in BOOLEAN :
     IF reached /\ EntryAllowed(Val(data[c]).id)
     THEN /\ entries' = Append(entries,
                 NewEntry(EntryRequest(Val(data[c]).id, c, run[c].premiumPaid, run[c].signature)))
          /\ poolBalance' = poolBalance + PoolShare(run[c].premiumPaid)
          /\ run' = [run EXCEPT ![c].entryId = Len(entries) + 1]
          /\ pc' = [pc EXCEPT ![c] = "settle"]
          /\ UNCHANGED paying
     ELSE /\ Catch(c, "Failed to create lottery entry")
          /\ UNCHANGED <<entries, poolBalance>>
  /\ UNCHANGED <<invoices, totalPaidOut, pageState, wheel, runs, directSettles, other, http, outbox>>

\* const winSegments = [0, 2, 4, 6, 8, 10]; const loseSegments = [1, 3, 5, 7, 9, 11]
Segments(won) == IF won THEN {0, 2, 4, 6, 8, 10} ELSE {1, 3, 5, 7, 9, 11}

\* finalAngle = segment * 30 + 5 + Math.random() * 20; totalRotation = 5 * 360 + finalAngle
TotalRotation(segment, offset) == 5 * 360 + segment * 30 + offset

\* sampled values of 5 + Math.random() * 20, which lies in [5, 25)
WheelOffsets == {5, 24}

\* settleLottery(entry.id), then the wheel is shown at 0 degrees; the request
\* may also fail before it reaches the backend
SettleLottery(c) ==
  /\ pc[c] = "settle"
  /\ \/ \E won \in Draws(entries[run[c].entryId].risk) :
          LET out == SettleOutcome(run[c].entryId, won)
          IN  /\ Settle(run[c].entryId, won)
              /\ IF out = "error"
                 THEN /\ Catch(c, "Failed to settle lottery")
                      /\ UNCHANGED wheel
                 ELSE /\ \E segment \in Segments(out = "won"), offset \in WheelOffsets :
                           run' = [run EXCEPT ![c].won = (out = "won"),
                                              ![c].totalRotation = TotalRotation(segment, offset)]
                      /\ wheel' = [wheel EXCEPT ![c] =
                             [showSpinWheel |-> TRUE, spinning |-> TRUE,
                              spinResult |-> wheel[c].spinResult, wheelRotation |-> 0]]
                      /\ pc' = [pc EXCEPT ![c] = "frames"]
                      /\ UNCHANGED paying
     \/ /\ Catch(c, "Failed to settle lottery")
        /\ UNCHANGED <<entries, poolBalance, totalPaidOut, wheel>>
  /\ UNCHANGED <<invoices, pageState, runs, directSettles, other, http, outbox>>

\* two animation frames later: setWheelRotation(totalRotation)
Frames(c) ==
  /\ pc[c] = "frames"
  /\ wheel' = [wheel EXCEPT ![c].wheelRotation = run[c].totalRotation]
  /\ pc' = [pc EXCEPT ![c] = "spin"]
  /\ UNCHANGED <<backend, pageState, paying, run, runs, directSettles, other, http, outbox>>

\* the segment of the wheel under the pointer at the top, for a wheel rotated
\* clockwise by rotation degrees: segment i is drawn clockwise from the top
\* over [30i, 30i + 30), so the pointer is over the wheel's angle -rotation
SegmentUnderPointer(rotation) == ((360 - (rotation % 360)) % 360) \div 30

\* const isWin = i % 2 === 0: the segments labelled FREE
IsWinSegment(i) == i % 2 = 0

\* mutant: the two results are swapped
SpinResultSwapped(won) == IF won THEN "lose" ELSE "win"

\* setSpinResult(won ? "win" : "lose")
SpinResult(won) == IF won THEN "win" ELSE "lose"

\* after the 4 s animation: the result is displayed and the page shows "paid"
SpinDone(c) ==
  /\ pc[c] = "spin"
  /\ wheel' = [wheel EXCEPT ![c].spinning = FALSE,
                            ![c].spinResult = SpinResult(run[c].won)]
  /\ SetDataPaid(c)
  /\ Finally(c)
  /\ UNCHANGED <<backend, connected, sessions, poolWalletAddress, doubleOrNothing, walletBalance, runs, directSettles, other, http, outbox>>

\* standard payment: POST /v1/hooks/verify-payment; an answer that is not ok
\* is only reported, a fetch that throws is caught
VerifyStandard(c) ==
  /\ pc[c] = "stdverify"
  /\ \/ /\ \E txFound \in BOOLEAN :
             IF verifyPayment(txFound, run[c].txErr)
             THEN invoices' = MarkPaid(Val(data[c]).id, run[c].signature)
             ELSE UNCHANGED invoices
        /\ SetDataPaid(c)
        /\ Finally(c)
     \/ /\ Catch(c, "Payment failed")
        /\ UNCHANGED <<invoices, data, checkingBalance>>
  /\ UNCHANGED <<entries, poolBalance, totalPaidOut, connected, sessions, poolWalletAddress, doubleOrNothing,
                 walletBalance, wheel, runs, directSettles, other, http, outbox>>

\* the Close button of the result panel
CloseWheel(c) ==
  /\ wheel[c].showSpinWheel
  /\ ~wheel[c].spinning
  /\ wheel[c].spinResult # "null"
  /\ wheel' = [wheel EXCEPT ![c] = NoWheel]
  /\ UNCHANGED <<backend, pageState, paying, pc, run, runs, directSettles, other, http, outbox>>

\* ------------------------------------------- the other client's requests
\* POST /v1/hooks/verify-payment for a confirmed double-or-nothing payment
OtherVerify ==
  /\ other.pc = "idle"
  /\ other.payments < MaxOtherPayments
  /\ \E id \in InvoiceIds :
       /\ invoices' = MarkPaid(id, MaxRuns + other.payments + 1)
       /\ other' = [other EXCEPT !.pc = "entry", !.id = id,
                                 !.signature = MaxRuns + other.payments + 1,
                                 !.payments = @ + 1]
  /\ UNCHANGED <<entries, poolBalance, totalPaidOut, pageState, runState, directSettles, http, outbox>>

\* createLotteryEntry(data.id, publicKey, premiumPaid, 50, signature)
OtherCreateLotteryEntry ==
  /\ other.pc = "entry"
  /\ IF EntryAllowed(other.id)
     THEN LET premiumPaid == PremiumPaid(2 * invoices[other.id].amount, invoices[other.id].amount)
          IN  /\ entries' = Append(entries,
                     NewEntry(EntryRequest(other.id, 0, premiumPaid, other.signature)))
              /\ poolBalance' = poolBalance + PoolShare(premiumPaid)
              /\ other' = [other EXCEPT !.pc = "settle", !.entryId = Len(entries) + 1]
     ELSE /\ other' = [NoOther EXCEPT !.payments = other.payments]
          /\ UNCHANGED <<entries, poolBalance>>
  /\ UNCHANGED <<invoices, totalPaidOut, pageState, runState, directSettles, http, outbox>>

\* settleLottery(entry.id)
OtherSettleLottery ==
  /\ other.pc = "settle"
  /\ \E won \in Draws(entries[other.entryId].risk) : Settle(other.entryId, won)
  /\ other' = [NoOther EXCEPT !.payments = other.payments]
  /\ UNCHANGED <<invoices, pageState, runState, directSettles, http, outbox>>

Next ==
  \/ \E c \in Clients :
       \/ ConnectWallet(c)
       \/ DisconnectWallet(c)
       \/ LoadPaymentData(c)
       \/ GetPoolWallet(c)
       \/ CheckWalletBalance(c)
       \/ SetDoubleOrNothing(c)
       \/ HandlePay(c)
       \/ SignAndSend(c)
       \/ PollConfirmed(c)
       \/ PollPending(c)
       \/ VerifyLottery(c)
       \/ CreateLotteryEntry(c)
       \/ SettleLottery(c)
       \/ Frames(c)
       \/ SpinDone(c)
       \/ VerifyStandard(c)
       \/ CloseWheel(c)
  \/ DirectSettle
  \/ OtherVerify
  \/ OtherCreateLotteryEntry
  \/ OtherSettleLottery

Spec == Init /\ [][Next]_vars

\* ------------------------------------------------------- the invoice API
\* The routes of /v1/inv over the invoices table.  Here the table starts empty
\* and its rows carry the columns the routes read or write (memo, milestones,
\* payment_link, created_at, client_wallet and on_chain_address are written
\* at most once and never read by a route of the model).
Times == {1, 2}               \* Math.floor(Date.now() / 1000)
TxSignatures == {"sig"}
StatusInputs == {"pending", "paid", "cancelled", "escrow_funded", "refunded"}
ClientEmails == {"client@example.com"}
Optional(S) == {Null} \cup {Some(x) : x \in S}

\* req.body.creatorWallet: a string, which need not be a public key
INVALID_WALLET == "notAPublicKey"
WalletInputs == {CREATOR, INVALID_WALLET}

\* the request bodies of POST /
CreateBodies ==
  [creatorWallet : Optional(WalletInputs), clientEmail : Optional(ClientEmails),
   amount : Optional({0, 5000000}), tokenMint : Optional({SOL_MINT}),
   dueDate : Optional({0, 1})]

\* mutant: an amount or a due date of 0 passes
MissingRequiredZeroPasses(body) ==
  \/ IsNull(body.creatorWallet)
  \/ IsNull(body.amount)
  \/ IsNull(body.tokenMint)
  \/ IsNull(body.dueDate)

\* if (!creatorWallet || !amount || !tokenMint || !dueDate)
MissingRequired(body) ==
  \/ IsNull(body.creatorWallet)
  \/ IsNull(body.amount) \/ Val(body.amount) = 0
  \/ IsNull(body.tokenMint)
  \/ IsNull(body.dueDate) \/ Val(body.dueDate) = 0

\* generatePaymentLink: new PublicKey(recipient) throws for a string that is
\* not a public key (Null), and else the link is built
generatePaymentLink(id, recipient) ==
  IF recipient \in {CREATOR, POOL} THEN Some(<<"solana:", recipient, id>>) ELSE Null

\* INSERT INTO invoices (...), with the defaults of the schema
NewInvoice(body) ==
  [creator_wallet |-> Val(body.creatorWallet), client_email |-> body.clientEmail,
   amount |-> Val(body.amount), token_mint |-> Val(body.tokenMint),
   due_date |-> Val(body.dueDate), status |-> "pending", paid_at |-> Null,
   tx_signature |-> Null, reminder_count |-> 0, last_reminder_at |-> Null]

\* what no route of the invoice API touches
payment == <<entries, poolBalance, totalPaidOut, pageState, runState, directSettles, other>>

Respond(req, code, error) == http' = [req |-> req, res |-> [code |-> code, error |-> error]]

\* router.post("/"): 400 for a missing field, 500 when generatePaymentLink or
\* the INSERT throws (the id is the primary key), 201 with the stored invoice
CreateInvoice ==
  /\ UNCHANGED <<payment, outbox>>
  /\ \E body \in CreateBodies, id \in IssuedIds :
    LET req == [op |-> "create", id |-> id, body |-> body]
    IN  IF MissingRequired(body)
        THEN Respond(req, 400, "Missing required fields") /\ UNCHANGED invoices
        ELSE IF IsNull(generatePaymentLink(id, Val(body.creatorWallet)))
        THEN Respond(req, 500, "Failed to create invoice") /\ UNCHANGED invoices
        ELSE IF id \in DOMAIN invoices
        THEN Respond(req, 500, "Failed to create invoice") /\ UNCHANGED invoices
        ELSE /\ invoices' = [i \in DOMAIN invoices \cup {id} |->
                               IF i = id THEN NewInvoice(body) ELSE invoices[i]]
             /\ Respond(req, 201, "")

\* router.get("/:id")
GetInvoice ==
  /\ UNCHANGED <<payment, outbox>>
  /\ \E id \in RequestIds :
    LET req == [op |-> "get", id |-> id]
    IN  /\ IF id \notin DOMAIN invoices
           THEN Respond(req, 404, "Invoice not found")
           ELSE Respond(req, 200, "")
        /\ UNCHANGED invoices

\* mutant: the time of the reminder is stored, the count is not raised
updateReminderNoCount(now, id) ==
  [invoices EXCEPT ![id].last_reminder_at = Some(now)]

\* UPDATE invoices SET reminder_count = reminder_count + 1, last_reminder_at = ?
updateReminder(now, id) ==
  [invoices EXCEPT ![id].reminder_count = @ + 1, ![id].last_reminder_at = Some(now)]

\* mutant: the status of the invoice is not looked at
RemindRejectionAnyStatus(id) ==
  IF id \notin DOMAIN invoices THEN <<404, "Invoice not found">>
  ELSE IF IsNull(invoices[id].client_email) THEN <<400, "No client email on invoice">>
  ELSE <<>>

\* the early returns of router.post("/:id/remind"): the answer, or <<>> when
\* the reminder goes on
RemindRejection(id) ==
  IF id \notin DOMAIN invoices THEN <<404, "Invoice not found">>
  ELSE IF invoices[id].status # "pending" THEN <<400, "Invoice is not pending">>
  ELSE IF IsNull(invoices[id].client_email) THEN <<400, "No client email on invoice">>
  ELSE <<>>

\* router.post("/:id/remind"); sendReminderEmail may throw; outbox counts the
\* reminder emails that were sent for an invoice
RemindInvoice ==
  /\ UNCHANGED payment
  /\ \E id \in RequestIds, now \in Times, sent \in BOOLEAN :
    LET req == [op |-> "remind", id |-> id, now |-> now]
        rejection == RemindRejection(id)
    IN  IF rejection # <<>>
        THEN Respond(req, rejection[1], rejection[2]) /\ UNCHANGED <<invoices, outbox>>
        ELSE IF ~sent
        THEN Respond(req, 500, "Failed to send reminder") /\ UNCHANGED <<invoices, outbox>>
        ELSE /\ invoices[id].reminder_count < MaxReminders
             /\ outbox' = [outbox EXCEPT ![id] = @ + 1]
             /\ invoices' = updateReminder(now, id)
             /\ Respond(req, 200, "")

\* mutant: a cancelled invoice is removed from the table
updateStatusDeleteCancelled(status, paidAt, txSignature, id) ==
  IF status = "cancelled"
  THEN [i \in DOMAIN invoices \ {id} |-> invoices[i]]
  ELSE [invoices EXCEPT ![id].status = status, ![id].paid_at = paidAt,
                        ![id].tx_signature = txSignature]

\* UPDATE invoices SET status = ?, paid_at = ?, tx_signature = ? WHERE id = ?
updateStatus(status, paidAt, txSignature, id) ==
  [invoices EXCEPT ![id].status = status, ![id].paid_at = paidAt,
                   ![id].tx_signature = txSignature]

\* mutant: every status update stamps paid_at
PaidAtAlways(status, now) == Some(now)

\* const paidAt = status === "paid" ? Math.floor(Date.now() / 1000) : null
PaidAt(status, now) == IF status = "paid" THEN Some(now) ELSE Null

\* router.patch("/:id/status"): status and txSignature are taken from the body
\* as they come (a body without status makes the statement throw: undefined
\* cannot be bound); admin tells whether the caller presents the admin key,
\* which the route does not read
PatchStatus ==
  /\ UNCHANGED <<payment, outbox>>
  /\ \E id \in RequestIds, status \in Optional(StatusInputs),
        txSignature \in Optional(TxSignatures), admin \in BOOLEAN, now \in Times :
    LET req == [op |-> "patch", id |-> id, status |-> status,
                txSignature |-> txSignature, admin |-> admin]
        paidAt == IF IsNull(status) THEN Null ELSE PaidAt(Val(status), now)
    IN  IF id \notin DOMAIN invoices
        THEN Respond(req, 404, "Invoice not found") /\ UNCHANGED invoices
        ELSE IF IsNull(status)
        THEN Respond(req, 500, "Failed to update status") /\ UNCHANGED invoices
        ELSE /\ invoices' = updateStatus(Val(status), paidAt, txSignature, id)
             /\ Respond(req, 200, "")

\* no payment page open, no lottery entry
PaymentIdle ==
  /\ entries = <<>>
  /\ poolBalance \in PoolSeeds
  /\ totalPaidOut = 0
  /\ data = [c \in Clients |-> Null]
  /\ poolWalletAddress = [c \in Clients |-> Null]
  /\ doubleOrNothing = [c \in Clients |-> FALSE]
  /\ walletBalance = [c \in Clients |-> Null]
  /\ checkingBalance = [c \in Clients |-> FALSE]
  /\ connected = [c \in Clients |-> FALSE]
  /\ sessions = [c \in Clients |-> {}]
  /\ paying = [c \in Clients |-> FALSE]
  /\ pc = [c \in Clients |-> "idle"]
  /\ run = [c \in Clients |-> EmptyRun]
  /\ wheel = [c \in Clients |-> NoWheel]
  /\ runs = 0
  /\ directSettles = 0
  /\ other = NoOther

\* the empty table, no request handled yet
ApiInit ==
  /\ invoices = <<>>
  /\ http = NoRequest
  /\ outbox = [id \in RequestIds |-> 0]
  /\ PaymentIdle

ApiNext ==
  \/ CreateInvoice
  \/ GetInvoice
  \/ RemindInvoice
  \/ PatchStatus

ApiSpec == ApiInit /\ [][ApiNext]_vars

\* ------------------------------------------------- handlePay, with progress
\* a step of a run of handlePay: the promise it awaits is settled
HandlePayStep(c) ==
  \/ SignAndSend(c)
  \/ PollConfirmed(c)
  \/ PollPending(c)
  \/ VerifyLottery(c)
  \/ CreateLotteryEntry(c)
  \/ SettleLottery(c)
  \/ Frames(c)
  \/ SpinDone(c)
  \/ VerifyStandard(c)

\* the page alone: the user's actions and the steps of handlePay
PageNext ==
  \E c \in Clients :
    \/ ConnectWallet(c)
    \/ DisconnectWallet(c)
    \/ LoadPaymentData(c)
    \/ GetPoolWallet(c)
    \/ CheckWalletBalance(c)
    \/ SetDoubleOrNothing(c)
    \/ HandlePay(c)
    \/ HandlePayStep(c)
    \/ CloseWheel(c)

\* every promise a run of handlePay awaits is settled (fulfilled or rejected)
\* at some time
FairSpec == Init /\ [][PageNext]_vars /\ \A c \in Clients : WF_vars(HandlePayStep(c))

\* ------------------------------------------------ verifyPayment, as a function
\* what connection.getTransaction(signature) can answer: null, or a
\* transaction with or without meta, failed or not, that transfers an amount
\* of a mint to a recipient
OTHER_WALLET == "otherWallet"
ChainTransactions ==
  Optional([meta : BOOLEAN, err : BOOLEAN, recipient : {CREATOR, OTHER_WALLET},
            amount : Amounts, mint : Mints])

\* the calls verifyPayment(signature, expectedRecipient, expectedAmount, expectedMint)
VerifyCalls ==
  [op : {"verifyPayment"}, tx : ChainTransactions, expectedRecipient : {CREATOR},
   expectedAmount : Amounts, expectedMint : Mints]

\* verifyPayment on the transaction its signature names: none of the three
\* expected values is looked at
VerifyPaymentOf(tx, expectedRecipient, expectedAmount, expectedMint) ==
  verifyPayment(~IsNull(tx) /\ Val(tx).meta, ~IsNull(tx) /\ Val(tx).err)

VerifyInit ==
  /\ invoices = <<>>
  /\ http \in {[req |-> call, res |-> [code |-> 0]] : call \in VerifyCalls}
  /\ outbox = [id \in RequestIds |-> 0]
  /\ PaymentIdle

\* the call returns; a getTransaction that throws is caught and answered false
VerifyPaymentCall ==
  /\ http.req.op = "verifyPayment"
  /\ http.res.code = 0
  /\ \E thrown \in BOOLEAN :
       http' = [http EXCEPT !.res =
         [code |-> 200,
          result |-> IF thrown THEN FALSE
                     ELSE VerifyPaymentOf(http.req.tx, http.req.expectedRecipient,
                                          http.req.expectedAmount, http.req.expectedMint)]]
  /\ UNCHANGED <<invoices, payment, outbox>>

VerifyNext == VerifyPaymentCall

VerifySpec == VerifyInit /\ [][VerifyNext]_vars

\* ------------------------------------------------------------------ claims
\* the risk level of a payment: 50 in double-or-nothing mode, 0 in standard mode
RiskLevel(dn) == IF dn THEN RiskSlider ELSE 0

InFlight(c) == pc[c] # "idle"
Sent(c) == run[c].signature # 0

C7_CreatorPaid ==
  \A c \in Clients :
    Sent(c) =>
      /\ TransfersTo(run[c].transaction, CREATOR) = <<invoices[Val(data[c]).id].amount>>
      /\ \A n \in DOMAIN run[c].transaction : run[c].transaction[n].fromPubkey = c

C7_Witness ==
  \E c \in Clients :
    /\ Sent(c) /\ run[c].doubleOrNothing /\ run[c].isLottery
    /\ TransfersTo(run[c].transaction, CREATOR) = <<Val(data[c]).amount>>

\* C8: the premium handlePay computes for the transfer, the premiumPaid it
\* reports, and the premium of the entry it creates all equal the charged
\* payment amount minus the invoice amount.
C8_PremiumIsPaymentMinusInvoice ==
  \A c \in Clients :
    LET charged == getPaymentAmount(data[c], run[c].doubleOrNothing)
        amount == invoices[Val(data[c]).id].amount
    IN  /\ InFlight(c) => run[c].premiumAmount = charged - amount
        /\ pc[c] \in {"entry", "settle", "frames", "spin"} => run[c].premiumPaid = charged - amount
        /\ run[c].entryId # 0 => entries[run[c].entryId].premium_paid = charged - amount

C8_Witness ==
  \E c \in Clients :
    /\ pc[c] = "settle"
    /\ entries[run[c].entryId].premium_paid = run[c].paymentAmount - Val(data[c]).amount
    /\ entries[run[c].entryId].premium_paid > 0

\* C10: a standard payment (0% risk) transfers nothing to the pool wallet, never
\* reaches the lottery steps of handlePay, and leaves no lottery entry.
C10_StandardNoLottery ==
  \A c \in Clients :
    (InFlight(c) /\ ~run[c].doubleOrNothing) =>
      /\ TransfersTo(run[c].transaction, POOL) = <<>>
      /\ pc[c] \notin {"verify", "entry", "settle", "frames", "spin"}
      /\ run[c].entryId = 0
      /\ Sent(c) => \A k \in DOMAIN entries : entries[k].tx_signature # run[c].signature

C10_Witness ==
  \E c \in Clients :
    pc[c] = "stdverify" /\ ~run[c].doubleOrNothing /\ Sent(c)

\* C2: settlement is idempotent.  Once an entry is settled, no step changes its
\* recorded outcome or pays for it again, and a further settle request for it
\* (its settles count grows) leaves the pool balance and the payout total as
\* they were.
C2_SettleIdempotent ==
  [][\A k \in DOMAIN entries :
       entries[k].status # "pending" =>
         /\ entries'[k].status = entries[k].status
         /\ entries'[k].status = entries[k].firstOutcome
         /\ entries'[k].paidOut = entries[k].paidOut
         /\ entries'[k].settles # entries[k].settles =>
              (poolBalance' = poolBalance /\ totalPaidOut' = totalPaidOut)]_vars

\* an entry that was settled twice, the first time as won and paid
C2_Witness ==
  \E k \in DOMAIN entries :
    /\ entries[k].settles >= 2
    /\ entries[k].status = "won"
    /\ entries[k].paidOut = Payout(entries[k])
    /\ totalPaidOut = entries[k].paidOut

\* C3: an invoice has at most one lottery entry.
C3_OneEntryPerInvoice ==
  \A id \in InvoiceIds :
    Cardinality({k \in DOMAIN entries : entries[k].invoice_id = id}) <= 1

\* the page's payment of an invoice is verified and about to ask for an entry
\* while the other client's payment of the same invoice is in the same place
C3_WitnessConcurrent ==
  \E c \in Clients :
    /\ pc[c] = "entry" /\ other.pc = "entry" /\ other.id = Val(data[c]).id

\* the other client holds the entry of the invoice, and the page, whose
\* payment was verified, has asked for a second one and was refused
C3_Witness ==
  \E c \in Clients :
    /\ ~IsNull(data[c])
    /\ Len(entries) = 1 /\ entries[1].client_wallet = 0
    /\ entries[1].invoice_id = Val(data[c]).id
    /\ invoices[entries[1].invoice_id].tx_signature \in 1 .. MaxRuns
    /\ pc[c] = "idle" /\ ~isPaid(c) /\ runs = 1 /\ doubleOrNothing[c]

\* C4: a step that pays out of the pool pays at most 10% of the pool balance
\* it found and leaves at least 20% of that balance in the pool.
C4_PayoutWithinLimits ==
  [][totalPaidOut' # totalPaidOut =>
       /\ (totalPaidOut' - totalPaidOut) * 10 <= poolBalance
       /\ poolBalance' * 5 >= poolBalance
       /\ poolBalance' = poolBalance - (totalPaidOut' - totalPaidOut)]_vars

C4_Witness ==
  /\ totalPaidOut > 0
  /\ \E k \in DOMAIN entries : entries[k].status = "won" /\ entries[k].paidOut = totalPaidOut

\* a pool constraint stands against the payout of entry e
ConstraintViolated(e) ==
  \/ Payout(e) * 10 > poolBalance
  \/ (poolBalance - Payout(e)) * 5 < poolBalance

\* C5: while the payout of a pending entry would violate a pool constraint, no
\* step settles the entry as won or pays for it, and a step that settles it
\* leaves the pool balance and the payout total unchanged.
C5_FailClosed ==
  [][\A k \in DOMAIN entries :
       (entries[k].status = "pending" /\ ConstraintViolated(entries[k])) =>
         /\ entries'[k].status # "won"
         /\ entries'[k].paidOut = 0
         /\ entries'[k] # entries[k] =>
              (poolBalance' = poolBalance /\ totalPaidOut' = totalPaidOut)]_vars

\* a direct settle request for an entry whose payout the pool cannot bear was
\* answered without an outcome: the entry is still pending, nothing was paid
C5_Witness ==
  /\ directSettles = 1
  /\ other.pc = "idle" /\ \A c \in Clients : pc[c] = "idle"
  /\ Len(entries) = 1
  /\ entries[1].status = "pending" /\ entries[1].settles = 0
  /\ ConstraintViolated(entries[1])
  /\ totalPaidOut = 0

\* C6 (as claimed): in double-or-nothing mode the transaction handlePay sends
\* transfers twice the invoice amount: the invoice amount to the creator and the
\* premium, equal to the invoice amount, to the pool wallet.
C6_DoubleTransfersTwice ==
  \A c \in Clients :
    (Sent(c) /\ run[c].doubleOrNothing) =>
      /\ SumAmounts(run[c].transaction) = 2 * Val(data[c]).amount
      /\ TransfersTo(run[c].transaction, CREATOR) = <<Val(data[c]).amount>>
      /\ TransfersTo(run[c].transaction, POOL) = <<Val(data[c]).amount>>

\* C9: every lottery entry has a risk in 0..50, which is exactly 50 (all
\* entries are created in double-or-nothing mode), and the share of the rolls
\* 0..99 that win it equals its risk in percent.
C9_RiskIsWinChance ==
  \A k \in DOMAIN entries :
    /\ entries[k].risk \in 0 .. 50
    /\ entries[k].risk = 50
    /\ Cardinality({roll \in Rolls : Won(roll, entries[k].risk)}) * 100
         = entries[k].risk * Cardinality(Rolls)

C9_Witness ==
  \E c \in Clients :
    /\ pc[c] = "settle" /\ run[c].doubleOrNothing
    /\ entries[run[c].entryId].client_wallet = c
    /\ entries[run[c].entryId].risk = 50

\* the page's run holds a lottery entry that it created
HoldsEntry(c) == pc[c] \in {"settle", "frames", "spin"} /\ run[c].entryId # 0

\* C11 (as claimed): on a winning settlement the refund paid from the pool
\* equals the whole amount the client's transaction transferred, which is
\* twice the invoice amount, so that the winner's net cost is zero.
C11_WinnerFullyRefunded ==
  \A c \in Clients :
    (pc[c] \in {"frames", "spin"} /\ run[c].won) =>
      /\ entries[run[c].entryId].paidOut = SumAmounts(run[c].transaction)
      /\ entries[run[c].entryId].paidOut = 2 * Val(data[c]).amount

\* C12 (as claimed): every created entry is settled, exactly once: once the
\* handlePay run that created an entry is past its settle request (the code
\* sends no other), the entry has its one recorded outcome.
C12_EveryEntrySettled ==
  \A k \in DOMAIN entries :
    LET e == entries[k]
        settling == \/ \E c \in Clients : pc[c] = "settle" /\ run[c].entryId = k
                    \/ other.pc = "settle" /\ other.entryId = k
    IN  ~settling => (e.status \in {"won", "lost"} /\ e.firstOutcome = e.status)

\* C17 (as claimed): when the wheel has stopped, rotated by 5 x 360 + finalAngle,
\* the segment under the pointer is a WIN segment exactly if the settlement
\* result is won.
C17_WheelRevealsResult ==
  \A c \in Clients :
    (pc[c] = "spin" /\ wheel[c].showSpinWheel /\ wheel[c].wheelRotation = run[c].totalRotation) =>
      (IsWinSegment(SegmentUnderPointer(wheel[c].wheelRotation)) <=> run[c].won)

\* C18 (as claimed): when handlePay has created a lottery entry with
\* premiumPaid = p, its confirmed transaction holds a transfer of exactly p to
\* the pool wallet.
C18_PremiumReallyPaid ==
  \A c \in Clients :
    HoldsEntry(c) =>
      /\ run[c].confirmed
      /\ TransfersTo(run[c].transaction, POOL) = <<entries[run[c].entryId].premium_paid>>

\* the steps of a double-or-nothing payment, in the order of handlePay
StepOrder ==
  [sign |-> 0, poll |-> 1, verify |-> 2, entry |-> 3, settle |-> 4, frames |-> 5, spin |-> 6]

\* C19: a double-or-nothing run of handlePay moves one step at a time through
\* sent, confirmed, verified by the backend, entry created, settled, wheel
\* shown, result displayed, each step entered only from the one before it and
\* only when that one succeeded; the displayed result is the backend outcome.
C19_StepsInOrder ==
  [][\A c \in Clients :
       /\ (pc'[c] # pc[c] /\ pc'[c] \in DOMAIN StepOrder /\ pc'[c] # "sign") =>
            /\ pc[c] \in DOMAIN StepOrder
            /\ StepOrder[pc'[c]] = StepOrder[pc[c]] + 1
       /\ (pc'[c] # pc[c] /\ pc'[c] = "poll") => run'[c].signature # 0
       /\ (pc'[c] # pc[c] /\ pc'[c] = "verify") =>
            (run'[c].confirmed /\ run'[c].doubleOrNothing)
       /\ (pc'[c] # pc[c] /\ pc'[c] = "entry") =>
            /\ ~run[c].txErr
            /\ invoices'[Val(data[c]).id].status = "paid"
            /\ invoices'[Val(data[c]).id].tx_signature = run[c].signature
       /\ (pc'[c] # pc[c] /\ pc'[c] = "settle") =>
            /\ run'[c].entryId \in DOMAIN entries' \ DOMAIN entries
            /\ entries'[run'[c].entryId].tx_signature = run[c].signature
       /\ (pc'[c] # pc[c] /\ pc'[c] = "frames") =>
            /\ entries'[run[c].entryId].status \in {"won", "lost"}
            /\ run'[c].won = (entries'[run[c].entryId].status = "won")
            /\ wheel'[c].showSpinWheel /\ wheel'[c].spinning
            /\ wheel'[c].wheelRotation = 0
       /\ (pc'[c] # pc[c] /\ pc'[c] = "spin") =>
            wheel'[c].wheelRotation = run[c].totalRotation
       /\ (wheel'[c].spinResult # wheel[c].spinResult /\ wheel'[c].spinResult # "null") =>
            /\ pc[c] = "spin"
            /\ wheel'[c].spinResult = "win" <=> entries[run[c].entryId].status = "won"
            /\ wheel'[c].spinResult = "lose" <=> entries[run[c].entryId].status = "lost"]_vars

\* the result of a winning entry is on display
C19_Witness ==
  \E c \in Clients :
    /\ pc[c] = "idle" /\ wheel[c].showSpinWheel /\ wheel[c].spinResult = "win"
    /\ isPaid(c)
    /\ \E k \in DOMAIN entries : entries[k].client_wallet = c /\ entries[k].status = "won"

InvoiceStatuses == {"pending", "paid", "cancelled", "escrow_funded"}

\* C13 (as claimed): the status of every invoice is one of pending, paid,
\* cancelled, escrow_funded.
C13_StatusInRange ==
  \A id \in DOMAIN invoices : invoices[id].status \in InvoiceStatuses

\* C14 (as claimed): a status-update request from a caller without admin
\* credentials leaves the status, paid_at and tx_signature of every invoice
\* unchanged.
C14_StatusOnlyByAdmin ==
  [][(http'.req.op = "patch" /\ ~http'.req.admin) =>
       \A id \in DOMAIN invoices :
         /\ id \in DOMAIN invoices'
         /\ invoices'[id].status = invoices[id].status
         /\ invoices'[id].paid_at = invoices[id].paid_at
         /\ invoices'[id].tx_signature = invoices[id].tx_signature]_vars

\* C15: no request removes an invoice from the table or changes what it was
\* created with, and a lookup of the id of a stored invoice finds it.
C15_NeverDeleted ==
  [][\A id \in DOMAIN invoices :
       /\ id \in DOMAIN invoices'
       /\ invoices'[id].creator_wallet = invoices[id].creator_wallet
       /\ invoices'[id].amount = invoices[id].amount
       /\ (http'.req.op = "get" /\ http'.req.id = id) => http'.res.code = 200]_vars

\* a cancelled invoice that was reminded before is looked up and found
C15_Witness ==
  /\ http.req.op = "get" /\ http.res.code = 200
  /\ http.req.id \in DOMAIN invoices
  /\ invoices[http.req.id].status = "cancelled"
  /\ invoices[http.req.id].reminder_count > 0

\* the transaction is found, succeeded, and pays what is expected
PaysExpected(call) ==
  /\ ~IsNull(call.tx)
  /\ Val(call.tx).meta /\ ~Val(call.tx).err
  /\ Val(call.tx).recipient = call.expectedRecipient
  /\ Val(call.tx).amount = call.expectedAmount
  /\ Val(call.tx).mint = call.expectedMint

\* C16 (as claimed): verifyPayment returns true only for a confirmed
\* transaction without error that transfers expectedAmount of expectedMint to
\* expectedRecipient, and false for a missing or failed transaction or one
\* that pays another recipient or amount.
C16_VerifyChecksTransfer ==
  (http.req.op = "verifyPayment" /\ http.res.code = 200) =>
    (http.res.result <=> PaysExpected(http.req))

\* C21: a run of handlePay starts, and so a transaction is built, signed and
\* sent, only with a wallet connected, the payment data loaded, and a last
\* checked wallet balance that is known and at least the payment amount plus
\* the fee buffer (10,000,000 lamports for SOL, 0 for other tokens).
C21_NoTransactionWithoutGuards ==
  [][\A c \in Clients :
       /\ (pc[c] = "idle" /\ pc'[c] # "idle") =>
            /\ connected[c]
            /\ ~IsNull(data[c])
            /\ ~IsNull(walletBalance[c])
            /\ Val(walletBalance[c]) >=
                 run'[c].paymentAmount
                   + (IF Val(data[c]).tokenMint = SOL_MINT THEN 10000000 ELSE 0)
            /\ run'[c].paymentAmount = getPaymentAmount(data[c], doubleOrNothing[c])
       /\ run'[c].signature # run[c].signature =>
            (pc[c] = "sign" /\ run[c].transaction # <<>>) \/ run'[c].signature = 0]_vars

\* no wallet is connected while everything else would allow the payment, and
\* no run is under way
C21_Witness ==
  \E c \in Clients :
    /\ ~connected[c] /\ ~IsNull(data[c]) /\ ~isPaid(c)
    /\ hasEnoughBalance(c) /\ ~paying[c] /\ pc[c] = "idle" /\ runs < MaxRuns

\* C22 (as claimed): the page sets its local status to paid only after the
\* backend verified the payment of the run, in standard and in
\* double-or-nothing mode.
C22_PaidOnlyAfterVerification ==
  [][\A c \in Clients :
       (~IsNull(data[c]) /\ Val(data[c]).status # "paid" /\ Val(data'[c]).status = "paid") =>
         \/ run[c].verified
         \/ /\ invoices'[Val(data[c]).id].status = "paid"
            /\ invoices'[Val(data[c]).id].tx_signature = run[c].signature]_vars

\* C23 (as claimed): a run whose confirmed double-or-nothing transaction
\* carries the premium does not end without a lottery entry for that payment.
C23_ConfirmedPaymentGetsEntry ==
  [][\A c \in Clients :
       (/\ pc[c] # "idle" /\ pc'[c] = "idle"
        /\ run[c].confirmed /\ run[c].doubleOrNothing
        /\ TransfersTo(run[c].transaction, POOL) # <<>>) =>
         \E k \in DOMAIN entries' :
           /\ entries'[k].invoice_id = Val(data[c]).id
           /\ entries'[k].tx_signature = run[c].signature]_vars

\* C24: a run of handlePay starts only while no run of the page is under way
\* (paying = false), and while a run is under way its transaction is not
\* replaced and at most one signature is given to it.
C24_OnePaymentInFlight ==
  [][\A c \in Clients :
       /\ paying[c] <=> pc[c] # "idle"
       /\ runs' # runs => (~paying[c] /\ pc[c] = "idle" /\ paying'[c] /\ runs' = runs + 1)
       /\ (paying[c] /\ paying'[c]) =>
            /\ run'[c].transaction = run[c].transaction
            /\ run[c].signature # 0 => run'[c].signature = run[c].signature]_vars

\* a transaction was sent and is not yet confirmed, and but for paying the
\* Pay button would start another run
C24_Witness ==
  \E c \in Clients :
    /\ paying[c] /\ pc[c] = "poll" /\ run[c].signature # 0
    /\ connected[c] /\ ~isPaid(c) /\ hasEnoughBalance(c) /\ runs < MaxRuns

\* C25: every run of handlePay ends, and when it has ended paying is false.
C25_HandlePayTerminates ==
  \A c \in Clients :
    /\ [](pc[c] = "idle" => ~paying[c])
    /\ paying[c] ~> (pc[c] = "idle" /\ ~paying[c])

\* two runs have ended, the second one with the invoice shown as paid
C25_Witness ==
  \E c \in Clients :
    /\ runs = MaxRuns /\ pc[c] = "idle" /\ ~paying[c] /\ isPaid(c)

\* what the claims call lacking a required field: the field is absent, or it
\* is an amount or a due date of 0
Lacks(body) ==
  \/ body.creatorWallet = Null
  \/ body.tokenMint = Null
  \/ body.amount \in {Null, Some(0)}
  \/ body.dueDate \in {Null, Some(0)}

\* the step stores exactly one new invoice, under the id of the request, as
\* the schema and the request make it
StoresOneInvoice(id, body) ==
  /\ id \notin DOMAIN invoices
  /\ DOMAIN invoices' = DOMAIN invoices \cup {id}
  /\ \A i \in DOMAIN invoices : invoices'[i] = invoices[i]
  /\ invoices'[id].status = "pending"
  /\ invoices'[id].reminder_count = 0
  /\ invoices'[id].paid_at = Null
  /\ invoices'[id].tx_signature = Null
  /\ invoices'[id].creator_wallet = Val(body.creatorWallet)
  /\ invoices'[id].amount = Val(body.amount)

\* C26 (as claimed): a create request that lacks creatorWallet, amount,
\* tokenMint or dueDate is answered 400 and stores nothing, and a request with
\* all four is answered 201 and stores exactly one new pending invoice.
C26_CreateAsClaimed ==
  [][http'.req.op = "create" =>
       IF Lacks(http'.req.body)
       THEN http'.res.code = 400 /\ invoices' = invoices
       ELSE http'.res.code = 201 /\ StoresOneInvoice(http'.req.id, http'.req.body)]_vars

\* C26 (amended): a create request that lacks creatorWallet, amount, tokenMint
\* or dueDate is answered 400 and stores nothing; a request with all four is
\* answered 201 and stores exactly one new pending invoice (reminder_count 0,
\* no paid_at, no tx_signature), unless its creatorWallet is not a public key
\* or its id is already in the table: then it is answered 500 and stores
\* nothing.
C26_CreateValidated ==
  [][http'.req.op = "create" =>
       IF Lacks(http'.req.body)
       THEN http'.res.code = 400 /\ invoices' = invoices
       ELSE IF \/ Val(http'.req.body.creatorWallet) = INVALID_WALLET
               \/ http'.req.id \in DOMAIN invoices
       THEN http'.res.code = 500 /\ invoices' = invoices
       ELSE http'.res.code = 201 /\ StoresOneInvoice(http'.req.id, http'.req.body)]_vars

\* a request with all four fields, whose creatorWallet is not a public key,
\* was answered 500 while the table holds nothing
C26_Witness ==
  /\ http.req.op = "create" /\ http.res.code = 500
  /\ ~Lacks(http.req.body)
  /\ Val(http.req.body.creatorWallet) = INVALID_WALLET
  /\ invoices = <<>>

\* C27: a reminder request for an invoice that does not exist is answered 404,
\* one for an invoice that is not pending or has no client email is answered
\* 400, and each of them leaves the invoices unchanged and sends no email.
C27_RejectedReminderChangesNothing ==
  [][http'.req.op = "remind" =>
       LET id == http'.req.id
       IN  /\ id \notin DOMAIN invoices =>
                http'.res.code = 404 /\ invoices' = invoices /\ outbox' = outbox
           /\ (id \in DOMAIN invoices /\ (\/ invoices[id].status # "pending"
                                          \/ invoices[id].client_email = Null)) =>
                http'.res.code = 400 /\ invoices' = invoices /\ outbox' = outbox
           /\ http'.res.code \in {400, 404} =>
                invoices' = invoices /\ outbox' = outbox]_vars

\* a reminder for a paid invoice that has a client email was answered 400
C27_Witness ==
  /\ http.req.op = "remind" /\ http.res.code = 400
  /\ http.req.id \in DOMAIN invoices
  /\ invoices[http.req.id].status = "paid"
  /\ invoices[http.req.id].client_email # Null

\* C28: reminder_count of an invoice is the number of reminders sent for it
\* with success: a reminder answered 200 raises it by 1 and sets
\* last_reminder_at to the time of the request, a reminder answered 500 leaves
\* both unchanged and no other request changes them.
C28_ReminderCount ==
  [][/\ \A id \in DOMAIN invoices' : invoices'[id].reminder_count = outbox'[id]
     /\ \A id \in DOMAIN invoices :
          IF http'.req.op = "remind" /\ http'.req.id = id /\ http'.res.code = 200
          THEN /\ invoices'[id].reminder_count = invoices[id].reminder_count + 1
               /\ invoices'[id].last_reminder_at = Some(http'.req.now)
               /\ outbox'[id] = outbox[id] + 1
          ELSE /\ invoices'[id].reminder_count = invoices[id].reminder_count
               /\ invoices'[id].last_reminder_at = invoices[id].last_reminder_at
               /\ outbox'[id] = outbox[id]]_vars

\* two reminders were sent for an invoice, and a third request failed with 500
C28_Witness ==
  /\ http.req.op = "remind" /\ http.res.code = 500
  /\ http.req.id \in DOMAIN invoices
  /\ invoices[http.req.id].reminder_count = 2
  /\ outbox[http.req.id] = 2
  /\ invoices[http.req.id].last_reminder_at # Null

\* C29: an invoice has a paid_at if and only if its status is paid, and a
\* status update to a status other than paid clears paid_at.
C29_PaidAtIffPaid ==
  [][/\ \A id \in DOMAIN invoices' :
          invoices'[id].paid_at # Null <=> invoices'[id].status = "paid"
     /\ (/\ http'.req.op = "patch" /\ http'.res.code = 200
         /\ http'.req.status # Some("paid")) =>
          invoices'[http'.req.id].paid_at = Null]_vars

\* a status update set an invoice to paid, with its paid_at
C29_Witness ==
  /\ http.req.op = "patch" /\ http.res.code = 200
  /\ http.req.status = Some("paid")
  /\ invoices[http.req.id].status = "paid"
  /\ invoices[http.req.id].paid_at # Null

\* C30 (as claimed): once the status of an invoice is paid, no request sets it
\* to another status or removes its tx_signature.
C30_PaidIsFinal ==
  [][\A id \in DOMAIN invoices :
       invoices[id].status = "paid" =>
         /\ id \in DOMAIN invoices'
         /\ invoices'[id].status = "paid"
         /\ invoices[id].tx_signature # Null => invoices'[id].tx_signature # Null]_vars

====
